---- MODULE Spec2Model ----
(***************************************************************************)
(* musctl: the commands of src/musctl.py as a state machine.                *)
(*                                                                         *)
(* Strings are sequences of one-character strings, so that the path and    *)
(* text functions the program calls (os.path.join, os.path.splitext,       *)
(* str.replace, str.split, ...) are computed as Python computes them.      *)
(* The file system is one name space: a set of directories and a map from  *)
(* the normalised absolute path of every regular file to its content.      *)
(* The external tools (rsync, mkdir, ffmpeg, ffprobe) act on that file     *)
(* system; whatever the program cannot control about them (their exit      *)
(* code, what an interrupted ffmpeg leaves behind, the order in which a    *)
(* directory is listed) is a nondeterministic choice.                      *)
(*                                                                         *)
(* Spec is generate-portable, run and run again.  SpecPlaylists is the     *)
(* playlist commands (deduplicate-playlists, check-playlists, maintenance) *)
(* over the text files of the playlists location.                          *)
(***************************************************************************)
EXTENDS Integers, Sequences, FiniteSets, TLC

VARIABLES
    command,                    \* the subcommand given on the command line
    media_loc,                  \* self.media_loc: "music", "music-portable", "playlists"
    convert_exts,               \* self.convert_exts
    exclude_dirs,               \* self.exclude_dirs
    files,                      \* file system: path of a regular file -> content
    dirs,                       \* file system: the directories
    unreadable,                 \* file system: directories that cannot be listed
    pc,                         \* position of the running command
    tracks_needing_converting,  \* local of cmd_generate_portable
    regular_files,              \* local of cmd_generate_portable
    track_num,                  \* loop index of cmd_generate_portable
    exit_code,                  \* <<status>> once the process has exited, else <<>>
    hist,                       \* history of the current run and of the one before
    playlist_files,             \* file system: path of a text file -> its characters
    playlists,                  \* local of the playlist commands: name -> lines
    todo,                       \* names the loop over playlists.items() has yet to reach
    playlist_was_edited,        \* local of cmd_deduplicate_playlists
    nonexist_track_was_found    \* local of cmd_check_playlists

\* The state only the playlist commands touch.
pl_vars == <<command, playlist_files, playlists, todo, playlist_was_edited,
             nonexist_track_was_found>>

vars == <<media_loc, convert_exts, exclude_dirs, files, dirs, unreadable, pc,
          tracks_needing_converting, regular_files, track_num, exit_code, hist,
          pl_vars>>

(***************************************************************************)
(* Bounds of the model.                                                    *)
(***************************************************************************)
MaxFiles == 2       \* files in the initial source tree
MaxRuns == 2        \* runs of the command in one behaviour

(***************************************************************************)
(* Program constants.                                                      *)
(***************************************************************************)
ERR_RSYNC == 1
ERR_FILESYSTEM == 2
ERR_FFMPEG == 3
ERR_CONFIG == 7

None == <<"None">>
DEF_CONVERT_EXTS == << <<"f", "l", "a", "c">> >>
DEF_EXCLUDE_DIRS == << <<"e", "t", "c">> >>
HASH_FIELD == <<"O", "r", "i", "g", "i", "n", "a", "l", "H", "a", "s", "h">>
OGG == <<".", "o", "g", "g">>

(***************************************************************************)
(* Python strings.                                                         *)
(***************************************************************************)
\* The characters of the model in code point order.
Chars == <<"\n", "\r", " ", "#", ",", ".", "/", "0", "1", "2", "3", "4", "5", "6", "7", "8", "9", "=",
           "A", "D", "E", "H", "M", "O", "R",
           "a", "b", "c", "d", "e", "f", "g", "h", "i", "k", "l", "m", "n", "o", "p",
           "r", "s", "t", "x", "z">>

Ord(c) == CHOOSE i \in 1..Len(Chars) : Chars[i] = c

\* s < t for Python strings: lexicographic by code point.
RECURSIVE StrLess(_, _)
StrLess(s, t) ==
    IF t = <<>> THEN FALSE
    ELSE IF s = <<>> THEN TRUE
    ELSE IF Head(s) = Head(t) THEN StrLess(Tail(s), Tail(t))
    ELSE Ord(Head(s)) < Ord(Head(t))

\* s.startswith(t)
StartsWith(s, t) == Len(s) >= Len(t) /\ SubSeq(s, 1, Len(t)) = t

\* s.rfind(c) + 1 for a character c: the last index of c in s, 0 when absent.
RFind(s, c) ==
    LET I == {i \in 1..Len(s) : s[i] = c}
    IN  IF I = {} THEN 0 ELSE CHOOSE i \in I : \A j \in I : j <= i

\* s.replace(old, new), old not empty: every non-overlapping occurrence, left to right.
RECURSIVE str_replace(_, _, _)
str_replace(s, old, new) ==
    IF Len(s) < Len(old) THEN s
    ELSE IF SubSeq(s, 1, Len(old)) = old
         THEN new \o str_replace(SubSeq(s, Len(old) + 1, Len(s)), old, new)
         ELSE <<Head(s)>> \o str_replace(Tail(s), old, new)

\* s.split(c) for a one-character separator: always at least one element.
RECURSIVE str_split(_, _)
str_split(s, c) ==
    LET I == {i \in 1..Len(s) : s[i] = c}
    IN  IF I = {} THEN <<s>>
        ELSE LET i == CHOOSE k \in I : \A j \in I : k <= j
             IN  <<SubSeq(s, 1, i - 1)>> \o str_split(SubSeq(s, i + 1, Len(s)), c)

\* s.strip(): leading and trailing whitespace removed.
Whitespace == {"\n", " "}
RECURSIVE str_lstrip(_)
str_lstrip(s) ==
    IF s # <<>> /\ Head(s) \in Whitespace THEN str_lstrip(Tail(s)) ELSE s
RECURSIVE str_rstrip(_)
str_rstrip(s) ==
    IF s # <<>> /\ s[Len(s)] \in Whitespace
    THEN str_rstrip(SubSeq(s, 1, Len(s) - 1)) ELSE s
str_strip(s) == str_rstrip(str_lstrip(s))

(***************************************************************************)
(* posixpath.                                                              *)
(***************************************************************************)
\* os.path.join(a, b)
os_path_join(a, b) ==
    IF StartsWith(b, <<"/">>) THEN b
    ELSE IF a = <<>> \/ a[Len(a)] = "/" THEN a \o b
    ELSE a \o <<"/">> \o b

\* os.path.basename(p)
os_path_basename(p) == SubSeq(p, RFind(p, "/") + 1, Len(p))

\* s with its trailing slashes removed
RECURSIVE RStripSlash(_)
RStripSlash(s) ==
    IF s # <<>> /\ s[Len(s)] = "/" THEN RStripSlash(SubSeq(s, 1, Len(s) - 1)) ELSE s

\* os.path.dirname(p)
os_path_dirname(p) ==
    LET head == SubSeq(p, 1, RFind(p, "/"))
    IN  IF head # <<>> /\ RStripSlash(head) # <<>> THEN RStripSlash(head) ELSE head

\* os.path.splitext(p): <<root, ext>>; leading dots of the last component are
\* no extension separator.
os_path_splitext(p) ==
    LET sepIndex == RFind(p, "/")
        dotIndex == RFind(p, ".")
    IN  IF dotIndex > sepIndex
           /\ \E k \in (sepIndex + 1)..(dotIndex - 1) : p[k] # "."
        THEN <<SubSeq(p, 1, dotIndex - 1), SubSeq(p, dotIndex, Len(p))>>
        ELSE <<p, <<>>>>

(***************************************************************************)
(* The file system.                                                        *)
(***************************************************************************)
Root == <<"/">>

RECURSIVE JoinComponents(_)
JoinComponents(cs) ==
    IF cs = <<>> THEN <<>> ELSE <<"/">> \o Head(cs) \o JoinComponents(Tail(cs))

\* The path the kernel resolves an absolute path string to: empty components
\* (doubled and trailing slashes) dropped.
Norm(p) ==
    LET cs == SelectSeq(str_split(p, "/"), LAMBDA c : c # <<>>)
    IN  IF cs = <<>> THEN Root ELSE JoinComponents(cs)

\* The path the kernel resolves p to in a process whose working directory is cwd.
Resolve(cwd, p) == IF StartsWith(p, <<"/">>) THEN Norm(p) ELSE Norm(cwd \o <<"/">> \o p)

Parent(p) == os_path_dirname(p)

\* p and the directories above it, p a normalised path.
RECURSIVE Ancestors(_)
Ancestors(p) == IF p = Root THEN {Root} ELSE {p} \cup Ancestors(Parent(p))

\* os.path.exists(p)
os_path_exists(p) == Norm(p) \in DOMAIN files \/ Norm(p) \in dirs

(***************************************************************************)
(* File contents.  A regular file is a record: id names the audio (or      *)
(* other) content, enc says what the bytes are ("raw": an original file,   *)
(* "ogg": a complete transcoding, "part": a truncated transcoding), meta   *)
(* is the set of <<field, value>> metadata tags ffprobe finds in it, and   *)
(* probe is whether ffprobe can read the file at all.                      *)
(***************************************************************************)
Digits == <<"0", "1", "2", "3", "4", "5", "6", "7", "8", "9">>
Digit(n) == Digits[n + 1]

\* An original file of content n; audio is whether ffprobe can read it.
RawFile(n, audio) == [id |-> n, enc |-> "raw", meta |-> {}, probe |-> audio]

\* __get_file_hash: the hex digest of the file's bytes; different bytes, different
\* digests.
get_file_hash(f) ==
    <<(CASE f.enc = "raw" -> "a" [] f.enc = "ogg" -> "b" [] OTHER -> "c"), Digit(f.id)>>
    \o (IF f.meta = {} THEN <<>> ELSE <<"e">>) \o (IF f.probe THEN <<"f">> ELSE <<>>)

\* What ffprobe prints for "-show_entries stream_tags=<field> -of csv=p=0".
ffprobe_stdout(f, field) ==
    LET vs == {t[2] : t \in {u \in f.meta : u[1] = field}}
    IN  IF vs = {} THEN <<"\n">> ELSE (CHOOSE v \in vs : TRUE) \o <<"\n">>

\* ffmpeg's reading of a "-metadata key=value" argument.
ffmpeg_metadata(segment) ==
    LET i == CHOOSE k \in 1..Len(segment) :
                 segment[k] = "=" /\ \A j \in 1..(k - 1) : segment[j] # "="
    IN  <<SubSeq(segment, 1, i - 1), SubSeq(segment, i + 1, Len(segment))>>

(***************************************************************************)
(* The configuration.                                                      *)
(***************************************************************************)
\* _read_config, lines 75-84: a comma separated option, or the default when the
\* option is absent.
read_list(str, default) == IF str = None THEN default ELSE str_split(str, ",")

\* x in list
InList(x, list) == \E i \in 1..Len(list) : list[i] = x

\* _require_locs: TRUE when no location is None.
require_locs(locs) == \A i \in 1..Len(locs) : locs[i] # None

(***************************************************************************)
(* The scan of cmd_generate_portable.                                      *)
(***************************************************************************)
\* The names os.scandir finds in directory d, in listing order: the order is the
\* file system's, here ascending or descending.
ListDir(d, rev) ==
    LET names == {os_path_basename(p) : p \in {q \in (DOMAIN files \cup dirs) :
                                                   q # Root /\ Parent(q) = d}}
    IN  SortSeq(CHOOSE s \in [1..Cardinality(names) -> names] :
                    \A i, j \in 1..Cardinality(names) : i # j => s[i] # s[j],
                LAMBDA a, b : IF rev THEN StrLess(b, a) ELSE StrLess(a, b))

RECURSIVE Flatten(_)
Flatten(ss) == IF ss = <<>> THEN <<>> ELSE Head(ss) \o Flatten(Tail(ss))

\* os.walk(top, topdown=True) with the in-place edit of dirs, line 197: the
\* <<root, filename>> pairs in the order the loops of lines 195-198 meet them.  A
\* directory that cannot be listed yields nothing (onerror is None).
RECURSIVE os_walk(_, _)
os_walk(top, rev) ==
    IF Norm(top) \notin dirs \/ Norm(top) \in unreadable THEN <<>>
    ELSE LET names == ListDir(Norm(top), rev)
             isdir(n) == Norm(os_path_join(top, n)) \in dirs
             nondirs == SelectSeq(names, LAMBDA n : ~isdir(n))
             subdirs == SelectSeq(names, LAMBDA n : isdir(n) /\ ~InList(n, exclude_dirs))
         IN  [i \in 1..Len(nondirs) |-> <<top, nondirs[i]>>]
             \o Flatten([i \in 1..Len(subdirs) |-> os_walk(os_path_join(top, subdirs[i]), rev)])

\* __path_without_music_lib
path_without_music_lib(path) == str_replace(path, media_loc.music \o <<"/">>, <<>>)

\* line 200: the extension without its dot
file_ext(filename) ==
    LET e == os_path_splitext(filename)[2] IN IF e = <<>> THEN <<>> ELSE Tail(e)

\* line 205
needs_converting(filename) == InList(file_ext(filename), convert_exts)

\* list.sort() on strings
sort_not(list) == list
sort(list) == SortSeq(list, StrLess)

\* lines 193-212: the two lists.
scan_lists(rev) ==
    LET found == os_walk(media_loc.music, rev)
        entry(w) == path_without_music_lib(os_path_join(w[1], w[2]))
        conv == SelectSeq(found, LAMBDA w : needs_converting(w[2]))
        regular == SelectSeq(found, LAMBDA w : ~needs_converting(w[2]))
    IN  [tracks_needing_converting |-> sort([i \in 1..Len(conv) |-> entry(conv[i])]),
         regular_files |-> sort([i \in 1..Len(regular) |-> entry(regular[i])])]

(***************************************************************************)
(* The conversion gate, __ffmpeg_convert.                                  *)
(***************************************************************************)
\* line 236
track_outdir(track) == os_path_dirname(os_path_join(media_loc.music_portable, track))

\* line 235
track_infile(track) == os_path_join(media_loc.music, track)

\* line 286
outtrack_of(intrack, outdir) ==
    os_path_join(outdir, os_path_splitext(os_path_basename(intrack))[1] \o OGG)

\* line 297
hash_metadata_segment(intrack_hash) == HASH_FIELD \o <<"=">> \o intrack_hash

\* line 320: the field ffprobe is asked for
probe_field_other == <<"H", "a", "s", "h">>
probe_field == HASH_FIELD

\* __get_track_stored_hash: rc of ffprobe and the stripped output; ffprobe fails on
\* a directory and on a file it cannot parse.
get_track_stored_hash(track) ==
    IF Norm(track) \notin DOMAIN files \/ ~files[Norm(track)].probe
    THEN [rc |-> 1, retrieved_hash |-> <<>>]
    ELSE [rc |-> 0,
          retrieved_hash |-> str_strip(ffprobe_stdout(files[Norm(track)], probe_field))]

\* lines 289-297 with the two checks of lines 322-326: what is done about an
\* outtrack, given whether it exists, what ffprobe gave and the intrack's hash.
gate_decision_accepts_stale(exists, stored, intrack_hash) ==
    IF exists
    THEN IF stored.rc # 0 THEN "probe_failed"
         ELSE IF stored.retrieved_hash = <<>> THEN "no_stored_hash"
         ELSE "skip"
    ELSE "produce"
gate_decision_unreadable_as_absent(exists, stored, intrack_hash) ==
    IF exists /\ stored.rc = 0 /\ stored.retrieved_hash # <<>>
    THEN IF stored.retrieved_hash = intrack_hash THEN "skip" ELSE "conflict"
    ELSE "produce"
gate_decision(exists, stored, intrack_hash) ==
    IF exists
    THEN IF stored.rc # 0 THEN "probe_failed"
         ELSE IF stored.retrieved_hash = <<>> THEN "no_stored_hash"
         ELSE IF stored.retrieved_hash = intrack_hash THEN "skip"
         ELSE "conflict"
    ELSE "produce"

\* lines 286-299 up to the point where ffmpeg would run: what the gate decides for
\* intrack.  "exception": the source cannot be opened for hashing.
gate(intrack, outdir) ==
    LET outtrack == outtrack_of(intrack, outdir)
    IN  IF Norm(intrack) \notin DOMAIN files
        THEN [kind |-> "exception", outtrack |-> outtrack, hash |-> <<>>,
              stored |-> [rc |-> 0, retrieved_hash |-> <<>>]]
        ELSE LET intrack_hash == get_file_hash(files[Norm(intrack)])
                 stored == get_track_stored_hash(outtrack)
             IN  [outtrack |-> outtrack, hash |-> intrack_hash, stored |-> stored,
                  kind |-> gate_decision(os_path_exists(outtrack), stored, intrack_hash)]

\* The file a completed ffmpeg writes: the transcoding of src carrying the
\* metadata of the "-metadata" argument.
ffmpeg_output(src, segment, complete) ==
    [id |-> src.id, enc |-> IF complete THEN "ogg" ELSE "part",
     meta |-> {ffmpeg_metadata(segment)}, probe |-> TRUE]

\* What an ffmpeg that failed or was killed can leave at its output path.
ffmpeg_leftovers(src, segment) ==
    {ffmpeg_output(src, segment, FALSE),
     [id |-> src.id, enc |-> "part", meta |-> {}, probe |-> TRUE],
     [id |-> src.id, enc |-> "part", meta |-> {}, probe |-> FALSE]}

(***************************************************************************)
(* History: the external commands of the current run in the order they     *)
(* were run, and how the run before ended.                                 *)
(***************************************************************************)
\* tool was run for track number n with arguments arg, exited with rc and gave out.
Cmd(tool, n, arg, rc, out) == [tool |-> tool, n |-> n, arg |-> arg, rc |-> rc, out |-> out]

\* The history at the start of run number run: how the run before ended (prev),
\* the file system it left, and every <<intrack, outtrack, hash>> a completed
\* ffmpeg has produced so far.
NewRun(run, prev, prev_files, prev_dirs, produced) ==
    [run |-> run, log |-> <<>>, prev |-> prev, prev_files |-> prev_files,
     prev_dirs |-> prev_dirs, produced |-> produced]

Logged(c) == [hist EXCEPT !.log = Append(@, c)]

(***************************************************************************)
(* Initial states.                                                         *)
(***************************************************************************)
MusicDir == <<"/", "m">>
PortableDir == <<"/", "p">>

\* Files a music library may hold, relative to the library.
Candidates == <<
    <<"b", ".", "o", "g", "g">>,
    <<"b", ".", "f", "l", "a", "c">>,
    <<"s", "/", "e", "t", "c", "/", "c", ".", "f", "l", "a", "c">>,
    <<"a", "/", "m", "/", "x", ".", "f", "l", "a", "c">>,
    <<"a", "x", ".", "f", "l", "a", "c">>,
    <<"R", "E", "A", "D", "M", "E">>,
    <<"s", "/", "d", ".", "f", "l", "a", "c">> >>

MusicOptions == {None, MusicDir, MusicDir \o <<"/">>, <<"/", "z">>}
\* Beside the portable library of its own: the music library itself, and a
\* directory inside it.
PortableOptions == {PortableDir, MusicDir, MusicDir \o <<"/", "p">>}
ConvertExtsOptions == {None, <<"f", "l", "a", "c", ",">>, <<>>}
ExcludeDirsOptions == {None}

\* The candidates b.flac and b.ogg.
BOggSource == CHOOSE i \in 1..Len(Candidates) : Candidates[i] = <<"b">> \o OGG
BFlac == CHOOSE i \in 1..Len(Candidates) : Candidates[i] = <<"b", ".", "f", "l", "a", "c">>
BOgg == PortableDir \o <<"/", "b">> \o OGG

\* The content of candidate i: an audio file without a hash tag when it is named
\* .ogg or .flac, some other file otherwise.
SourceFile(i) ==
    RawFile(i, os_path_splitext(Candidates[i])[2] \in {OGG, <<".", "f", "l", "a", "c">>})

\* What the portable library may already hold at the place of b.flac's artifact.
Existing(kind) ==
    CASE kind = "current" ->
            [id |-> BFlac, enc |-> "ogg", probe |-> TRUE,
             meta |-> {<<HASH_FIELD, get_file_hash(SourceFile(BFlac))>>}]
      [] kind = "stale" ->
            [id |-> 0, enc |-> "ogg", probe |-> TRUE,
             meta |-> {<<HASH_FIELD, get_file_hash(RawFile(0, TRUE))>>}]
      [] kind = "untagged" -> [id |-> 0, enc |-> "ogg", probe |-> TRUE, meta |-> {}]
      [] OTHER -> [id |-> 0, enc |-> "part", probe |-> FALSE, meta |-> {}]

SourcePath(i) == MusicDir \o <<"/">> \o Candidates[i]

\* The state in which no playlist command has anything to act on.
NoPlaylists ==
    /\ playlist_files = <<>>
    /\ playlists = <<>>
    /\ todo = <<>>
    /\ playlist_was_edited = FALSE
    /\ nonexist_track_was_found = FALSE

Init ==
    \E tree \in SUBSET (1..Len(Candidates)),
       existing \in {"none", "current", "stale", "untagged", "broken"},
       music \in MusicOptions, portable \in PortableOptions,
       conv \in ConvertExtsOptions, excl \in ExcludeDirsOptions :
        LET srcdirs == UNION {Ancestors(Parent(SourcePath(i))) : i \in tree}
                       \cup Ancestors(MusicDir)
        IN  /\ Cardinality(tree) <= MaxFiles
            /\ existing # "none" => BFlac \in tree /\ BOggSource \notin tree
                                     /\ music = MusicDir
            /\ portable # PortableDir => existing = "none" /\ music = MusicDir
                                          /\ conv = None
            /\ command = "generate-portable"
            /\ NoPlaylists
            /\ media_loc = [music |-> music, music_portable |-> portable,
                            playlists |-> None]
            /\ convert_exts = read_list(conv, DEF_CONVERT_EXTS)
            /\ exclude_dirs = read_list(excl, DEF_EXCLUDE_DIRS)
            /\ files = [p \in {SourcePath(i) : i \in tree}
                              \cup (IF existing = "none" THEN {} ELSE {BOgg}) |->
                          IF p = BOgg THEN Existing(existing)
                          ELSE SourceFile(CHOOSE i \in tree : SourcePath(i) = p)]
            /\ dirs = srcdirs \cup Ancestors(PortableDir)
            /\ unreadable \in {{}} \cup (IF existing = "none" /\ portable = PortableDir
                                           THEN {{d} : d \in srcdirs \ {Root}} ELSE {})
            /\ pc = "start"
            /\ tracks_needing_converting = <<>>
            /\ regular_files = <<>>
            /\ track_num = 0
            /\ exit_code = <<>>
            /\ hist = NewRun(1, "none", files, dirs, {})

(***************************************************************************)
(* The steps of cmd_generate_portable.                                     *)
(***************************************************************************)
\* self.fail(msg, ret): the message is logged and the process exits with status ret.
fail(msg, ret) ==
    /\ pc' = "failed"
    /\ exit_code' = <<ret>>

\* fail_if_error, lines 110-113; otherwise the command goes on at next_pc.
fail_if_error_ignored(function_ret, msg, ret, next_pc) ==
    pc' = next_pc /\ exit_code' = exit_code
fail_if_error_not_for_mkdir(function_ret, msg, ret, next_pc) ==
    IF function_ret # 0 /\ ret # ERR_FILESYSTEM
    THEN fail(msg, ret)
    ELSE pc' = next_pc /\ exit_code' = exit_code
fail_if_error(function_ret, msg, ret, next_pc) ==
    IF function_ret # 0
    THEN fail(msg, ret)
    ELSE pc' = next_pc /\ exit_code' = exit_code

\* lines 185-188
RequireLocs ==
    /\ pc = "start"
    /\ IF require_locs(<<media_loc.music, media_loc.music_portable>>)
       THEN pc' = "scan" /\ exit_code' = exit_code
       ELSE fail("missing a required location", ERR_CONFIG)
    /\ UNCHANGED <<media_loc, convert_exts, exclude_dirs, files, dirs, unreadable,
                   tracks_needing_converting, regular_files, track_num, hist>>
    /\ UNCHANGED pl_vars

\* lines 192-212
Scan ==
    /\ pc = "scan"
    /\ \E rev \in BOOLEAN :
        /\ tracks_needing_converting' = scan_lists(rev).tracks_needing_converting
        /\ regular_files' = scan_lists(rev).regular_files
    /\ pc' = "copy"
    /\ UNCHANGED <<media_loc, convert_exts, exclude_dirs, files, dirs, unreadable,
                   track_num, exit_code, hist>>
    /\ UNCHANGED pl_vars

\* "rsync -aR <entries> <dest>" run in cwd: where entry e is read and written.
\* With -R the whole path given on the command line is kept below dest.
rsync_src(cwd, e) == Resolve(cwd, e)
rsync_dst(dest, e) == Norm(dest \o <<"/">> \o e)

\* The file system after rsync has copied the entries at the indices in I.
rsync_files(cwd, dest, entries, I) ==
    LET dst == {rsync_dst(dest, entries[i]) : i \in I}
    IN  [p \in DOMAIN files \cup dst |->
            IF p \in dst
            THEN files[rsync_src(cwd, entries[CHOOSE i \in I : rsync_dst(dest, entries[i]) = p])]
            ELSE files[p]]

rsync_dirs(dest, entries, I) ==
    dirs \cup UNION {Ancestors(Parent(rsync_dst(dest, entries[i]))) : i \in I}

\* rsync can copy entry e: it exists and nothing of another kind is in its way.
rsync_can_copy(cwd, dest, e) ==
    /\ rsync_src(cwd, e) \in DOMAIN files
    /\ rsync_dst(dest, e) \notin dirs
    /\ Ancestors(Parent(rsync_dst(dest, e))) \cap DOMAIN files = {}

\* line 214: there is nothing to copy
no_simple_copy_files_unchecked(list) == FALSE
no_simple_copy_files(list) == Len(list) = 0

\* lines 214-229
Copy ==
    /\ pc = "copy"
    /\ IF no_simple_copy_files(regular_files)
       THEN /\ pc' = "loop"
            /\ UNCHANGED <<files, dirs, exit_code, hist>>
       ELSE LET cwd == media_loc.music
                dest == media_loc.music_portable
                can == {i \in 1..Len(regular_files) :
                            rsync_can_copy(cwd, dest, regular_files[i])}
            IN  \E rc \in {0, 23}, k \in 0..Len(regular_files) :
                    /\ rc = 0 => k = Len(regular_files) /\ can = 1..Len(regular_files)
                    /\ files' = rsync_files(cwd, dest, regular_files, can \cap 1..k)
                    /\ dirs' = rsync_dirs(dest, regular_files, can \cap 1..k)
                    /\ hist' = Logged(Cmd("rsync", 0, regular_files, rc, <<>>))
                    /\ fail_if_error(rc, "rsync command copying regular files failed",
                                     ERR_RSYNC, "loop")
    /\ UNCHANGED <<media_loc, convert_exts, exclude_dirs, unreadable,
                   tracks_needing_converting, regular_files, track_num>>
    /\ UNCHANGED pl_vars

\* lines 233-245: the next track's directory is made.
Mkdir ==
    /\ pc = "loop"
    /\ track_num < Len(tracks_needing_converting)
    /\ LET track == tracks_needing_converting[track_num + 1]
           outdir == track_outdir(track)
           made == Ancestors(Norm(outdir))
       IN  \E rc \in {0, 1} :
            /\ rc = 0 => made \cap DOMAIN files = {}
            /\ dirs' = IF rc = 0 THEN dirs \cup made ELSE dirs
            /\ hist' = Logged(Cmd("mkdir", track_num, outdir, rc, <<>>))
            /\ fail_if_error(rc, "couldn't create directory structure", ERR_FILESYSTEM,
                             "convert")
    /\ UNCHANGED <<media_loc, convert_exts, exclude_dirs, files, unreadable,
                   tracks_needing_converting, regular_files, track_num>>
    /\ UNCHANGED pl_vars

\* The log of one call of __ffmpeg_convert: the hashing, the probe when the
\* outtrack exists, the ffmpeg command when it is run.
gate_log(intrack, g, ffmpeg_rc) ==
    <<Cmd("hash", track_num, intrack, IF g.kind = "exception" THEN 1 ELSE 0, g.hash)>>
    \o (IF g.kind \in {"probe_failed", "no_stored_hash", "skip", "conflict"}
        THEN <<Cmd("ffprobe", track_num, g.outtrack, g.stored.rc, g.stored.retrieved_hash)>>
        ELSE <<>>)
    \o (IF g.kind = "produce"
        THEN <<Cmd("ffmpeg", track_num,
                   <<intrack, hash_metadata_segment(g.hash), g.outtrack>>, ffmpeg_rc, <<>>)>>
        ELSE <<>>)

\* lines 247-250 with __ffmpeg_convert, lines 286-299.
Convert ==
    /\ pc = "convert"
    /\ LET track == tracks_needing_converting[track_num + 1]
           infile == track_infile(track)
           outdir == track_outdir(track)
           g == gate(infile, outdir)
           out == Norm(g.outtrack)
       IN  CASE g.kind = "exception" ->
                  \* open() raises: the process ends with Python's status 1
                  /\ pc' = "failed" /\ exit_code' = <<1>>
                  /\ hist' = [hist EXCEPT !.log = @ \o gate_log(infile, g, 0)]
                  /\ UNCHANGED <<files, track_num>>
             [] g.kind = "probe_failed" ->
                  /\ fail("error while retrieving stored hash", ERR_FFMPEG)
                  /\ hist' = [hist EXCEPT !.log = @ \o gate_log(infile, g, 0)]
                  /\ UNCHANGED <<files, track_num>>
             [] g.kind = "no_stored_hash" ->
                  /\ fail("converted track has no stored hash", ERR_FILESYSTEM)
                  /\ hist' = [hist EXCEPT !.log = @ \o gate_log(infile, g, 0)]
                  /\ UNCHANGED <<files, track_num>>
             [] g.kind = "conflict" ->
                  /\ fail("outtrack's stored hash does not match intrack", ERR_FILESYSTEM)
                  /\ hist' = [hist EXCEPT !.log = @ \o gate_log(infile, g, 0)]
                  /\ UNCHANGED <<files, track_num>>
             [] g.kind = "skip" ->
                  /\ fail_if_error(0, "an ffmpeg command failed", ERR_FFMPEG, "loop")
                  /\ track_num' = track_num + 1
                  /\ hist' = [hist EXCEPT !.log = @ \o gate_log(infile, g, 0)]
                  /\ UNCHANGED files
             [] g.kind = "produce" ->
                  LET src == files[Norm(infile)]
                      segment == hash_metadata_segment(g.hash)
                      \* ffmpeg -n writes only where nothing is, in a directory
                      writable == Norm(outdir) \in dirs /\ ~os_path_exists(g.outtrack)
                  IN  \/ /\ writable
                         /\ files' = (out :> ffmpeg_output(src, segment, TRUE)) @@ files
                         /\ fail_if_error(0, "an ffmpeg command failed", ERR_FFMPEG, "loop")
                         /\ track_num' = track_num + 1
                         /\ hist' = [hist EXCEPT !.log = @ \o gate_log(infile, g, 0),
                                                 !.produced = @ \cup {<<infile, g.outtrack, g.hash>>}]
                      \/ /\ \/ UNCHANGED files
                            \/ /\ writable
                               /\ \E left \in ffmpeg_leftovers(src, segment) :
                                    files' = (out :> left) @@ files
                         /\ \E rc \in {1} :
                              /\ fail_if_error(rc, "an ffmpeg command failed", ERR_FFMPEG,
                                               "loop")
                              /\ hist' = [hist EXCEPT !.log = @ \o gate_log(infile, g, rc)]
                         /\ UNCHANGED track_num
    /\ UNCHANGED <<media_loc, convert_exts, exclude_dirs, dirs, unreadable,
                   tracks_needing_converting, regular_files>>
    /\ UNCHANGED pl_vars

\* line 252: every track is done, "portable library generated".
Generated ==
    /\ pc = "loop"
    /\ track_num = Len(tracks_needing_converting)
    /\ pc' = "done"
    /\ exit_code' = <<0>>
    /\ UNCHANGED <<media_loc, convert_exts, exclude_dirs, files, dirs, unreadable,
                   tracks_needing_converting, regular_files, track_num, hist>>
    /\ UNCHANGED pl_vars

(***************************************************************************)
(* The environment: the process is terminated, the command is run again.   *)
(***************************************************************************)
\* The process is terminated between two steps (before the bulk copy nothing
\* has been done yet).
Kill ==
    /\ pc \in {"loop", "convert"}
    /\ pc' = "killed"
    /\ UNCHANGED <<media_loc, convert_exts, exclude_dirs, files, dirs, unreadable,
                   tracks_needing_converting, regular_files, track_num, exit_code, hist>>
    /\ UNCHANGED pl_vars

\* The process is terminated while ffmpeg writes the outtrack.
KillFfmpeg ==
    /\ pc = "convert"
    /\ LET track == tracks_needing_converting[track_num + 1]
           infile == track_infile(track)
           outdir == track_outdir(track)
           g == gate(infile, outdir)
       IN  /\ g.kind = "produce"
           /\ Norm(outdir) \in dirs /\ ~os_path_exists(g.outtrack)
           /\ \E left \in ffmpeg_leftovers(files[Norm(infile)], hash_metadata_segment(g.hash)) :
                files' = (Norm(g.outtrack) :> left) @@ files
           /\ hist' = [hist EXCEPT !.log = @ \o gate_log(infile, g, 255)]
    /\ pc' = "killed"
    /\ UNCHANGED <<media_loc, convert_exts, exclude_dirs, dirs, unreadable,
                   tracks_needing_converting, regular_files, track_num, exit_code>>
    /\ UNCHANGED pl_vars

\* The command is run again on the file system the run before left.
Rerun ==
    /\ pc \in {"done", "failed", "killed"}
    /\ hist.run < MaxRuns
    /\ pc' = "start"
    /\ tracks_needing_converting' = <<>>
    /\ regular_files' = <<>>
    /\ track_num' = 0
    /\ exit_code' = <<>>
    /\ hist' = NewRun(hist.run + 1, pc, files, dirs, hist.produced)
    /\ UNCHANGED <<media_loc, convert_exts, exclude_dirs, files, dirs, unreadable>>
    /\ UNCHANGED pl_vars

Next ==
    \/ RequireLocs
    \/ Scan
    \/ Copy
    \/ Mkdir
    \/ Convert
    \/ Generated
    \/ Kill
    \/ KillFfmpeg
    \/ Rerun

Spec == Init /\ [][Next]_vars

(***************************************************************************)
(* The playlist commands: cmd_deduplicate_playlists, cmd_check_playlists   *)
(* and cmd_maintenance.  A playlist is a text file in the playlists        *)
(* location, one track per line.                                           *)
(***************************************************************************)
MaxLen == 4         \* characters in the playlist files of the initial state

PlaylistsDir == <<"/", "l">>
PlaylistNames == << <<"k">>, <<"l">> >>
PlaylistChars == {"a", "b", "\n", "\r"}
PlaylistCommands == {"deduplicate-playlists", "check-playlists", "maintenance"}
PlaylistsOptions == {None, PlaylistsDir, <<"/", "z">>}

\* The texts of at most n characters.
Texts(n) == UNION {[1..k -> PlaylistChars] : k \in 0..n}

\* open(path, "r").read(): universal newlines, "\r\n" and "\r" are read as "\n".
RECURSIVE read_text(_)
read_text(s) ==
    IF s = <<>> THEN <<>>
    ELSE IF Head(s) = "\r"
         THEN <<"\n">> \o read_text(IF Len(s) > 1 /\ s[2] = "\n"
                                    THEN Tail(Tail(s)) ELSE Tail(s))
         ELSE <<Head(s)>> \o read_text(Tail(s))

\* str.splitlines() of a text whose only line boundary is "\n": no empty last
\* line after a final "\n".
RECURSIVE str_splitlines(_)
str_splitlines(s) ==
    LET I == {i \in 1..Len(s) : s[i] = "\n"}
    IN  IF s = <<>> THEN <<>>
        ELSE IF I = {} THEN <<s>>
        ELSE LET i == CHOOSE k \in I : \A j \in I : k <= j
             IN  <<SubSeq(s, 1, i - 1)>> \o str_splitlines(SubSeq(s, i + 1, Len(s)))

\* lines 135-136: what the loop of f.write("{}\n".format(line)) leaves in the file.
RECURSIVE write_lines(_)
write_lines(lines) ==
    IF lines = <<>> THEN <<>> ELSE Head(lines) \o <<"\n">> \o write_lines(Tail(lines))

\* lines 128-129: the lines not seen before, in order.
RECURSIVE dedup_from(_, _)
dedup_keep_last(tracks, seen) ==
    LET I == {i \in 1..Len(tracks) : \A j \in (i + 1)..Len(tracks) : tracks[j] # tracks[i]}
        ord == SortSeq(CHOOSE s \in [1..Cardinality(I) -> I] :
                           \A i, j \in 1..Cardinality(I) : i # j => s[i] # s[j],
                       LAMBDA a, b : a < b)
    IN  [k \in 1..Cardinality(I) |-> tracks[ord[k]]]
dedup_from(tracks, seen) ==
    IF tracks = <<>> THEN <<>>
    ELSE IF Head(tracks) \in seen THEN dedup_from(Tail(tracks), seen)
         ELSE <<Head(tracks)>> \o dedup_from(Tail(tracks), seen \cup {Head(tracks)})
tracks_dedup_of(tracks) == dedup_from(tracks, {})

\* os.listdir(d): the names in directory d, in the file system's order.
os_listdir(d, rev) ==
    LET names == {os_path_basename(p) :
                    p \in {q \in (DOMAIN playlist_files \cup DOMAIN files \cup dirs) :
                              q # Root /\ Parent(q) = d}}
    IN  SortSeq(CHOOSE s \in [1..Cardinality(names) -> names] :
                    \A i, j \in 1..Cardinality(names) : i # j => s[i] # s[j],
                LAMBDA a, b : IF rev THEN StrLess(b, a) ELSE StrLess(a, b))

\* __get_playlists: the dict of the lines of every entry of the playlists
\* location and the order of its items; raised when the location cannot be
\* listed or an entry cannot be read as text (a directory, an audio file).
get_playlists(rev) ==
    LET loc == media_loc.playlists
        names == IF Norm(loc) \in dirs THEN os_listdir(Norm(loc), rev) ELSE <<>>
        path(pl) == Norm(os_path_join(loc, pl))
    IN  [raised |-> \/ Norm(loc) \notin dirs
                    \/ \E i \in 1..Len(names) : path(names[i]) \notin DOMAIN playlist_files,
         order |-> names,
         playlists |-> [pl \in {names[i] : i \in 1..Len(names)} |->
                           IF path(pl) \in DOMAIN playlist_files
                           THEN str_splitlines(read_text(playlist_files[path(pl)]))
                           ELSE <<>>]]

\* The history at the start of a run of a playlist command: also the playlist
\* files the run starts from; produced is the playlists rewritten so far.
NewPlaylistRun(run, prev, produced) ==
    [start_playlist_files |-> playlist_files] @@ NewRun(run, prev, files, dirs, produced)

InitPlaylists ==
    \E cmd \in PlaylistCommands, loc \in PlaylistsOptions, music \in {None, MusicDir},
       count \in 0..Len(PlaylistNames), subdir \in BOOLEAN :
      \* the texts matter only where the playlists can be read
      \E t1 \in Texts(IF count > 0 /\ loc = PlaylistsDir /\ ~subdir THEN MaxLen ELSE 0) :
        \E t2 \in Texts(IF count > 1 /\ loc = PlaylistsDir /\ ~subdir
                         THEN MaxLen - Len(t1) ELSE 0) :
            LET name(i) == PlaylistsDir \o <<"/">> \o PlaylistNames[i]
                track == MusicDir \o <<"/", "a">>
            IN  /\ command = cmd
                /\ media_loc = [music |-> music, music_portable |-> None,
                                playlists |-> loc]
                /\ convert_exts = DEF_CONVERT_EXTS
                /\ exclude_dirs = DEF_EXCLUDE_DIRS
                /\ files = (track :> RawFile(1, TRUE))
                /\ dirs = Ancestors(MusicDir) \cup Ancestors(PlaylistsDir)
                          \cup (IF subdir THEN {PlaylistsDir \o <<"/", "d">>} ELSE {})
                /\ unreadable = {}
                /\ playlist_files = [p \in {name(i) : i \in 1..count} |->
                                        IF p = name(1) THEN t1 ELSE t2]
                /\ playlists = <<>>
                /\ todo = <<>>
                /\ playlist_was_edited = FALSE
                /\ nonexist_track_was_found = FALSE
                /\ pc = "start"
                /\ tracks_needing_converting = <<>>
                /\ regular_files = <<>>
                /\ track_num = 0
                /\ exit_code = <<>>
                /\ hist = NewPlaylistRun(1, "none", {})

\* What the playlist commands leave alone.
portable_vars == <<convert_exts, exclude_dirs, files, dirs, unreadable,
                   tracks_needing_converting, regular_files, track_num>>

\* lines 120-122
DedupRequireLocs ==
    /\ pc = "start"
    /\ command \in {"deduplicate-playlists", "maintenance"}
    /\ IF require_locs(<<media_loc.playlists>>)
       THEN pc' = "dedup_read" /\ exit_code' = exit_code
       ELSE fail("missing a required location", ERR_CONFIG)
    /\ UNCHANGED <<command, media_loc, playlist_files, playlists, todo,
                   playlist_was_edited, nonexist_track_was_found, hist, portable_vars>>

\* lines 124-126: the playlists are read; an exception ends the process with
\* Python's status 1.
DedupRead ==
    /\ pc = "dedup_read"
    /\ \E rev \in BOOLEAN :
        LET got == get_playlists(rev)
        IN  IF got.raised
            THEN /\ pc' = "failed" /\ exit_code' = <<1>>
                 /\ UNCHANGED <<playlists, todo>>
            ELSE /\ pc' = "dedup_loop" /\ exit_code' = exit_code
                 /\ playlists' = got.playlists
                 /\ todo' = got.order
    /\ playlist_was_edited' = FALSE
    /\ UNCHANGED <<command, media_loc, playlist_files, nonexist_track_was_found, hist,
                   portable_vars>>

\* lines 126-137: one playlist of the loop.  The file is opened for writing only
\* when the deduplicated lines differ; open() may raise.
DedupPlaylist ==
    /\ pc = "dedup_loop"
    /\ todo # <<>>
    /\ LET playlist == Head(todo)
           tracks == playlists[playlist]
           tracks_dedup == tracks_dedup_of(tracks)
           path == Norm(os_path_join(media_loc.playlists, playlist))
       IN  IF tracks_dedup # tracks
           THEN \/ /\ playlist_files' = [playlist_files EXCEPT ![path] = write_lines(tracks_dedup)]
                   /\ playlist_was_edited' = TRUE
                   /\ hist' = Logged(Cmd("write", 0, path, 0, tracks_dedup))
                   /\ todo' = Tail(todo)
                   /\ UNCHANGED <<pc, exit_code>>
                \/ /\ pc' = "failed" /\ exit_code' = <<1>>
                   /\ UNCHANGED <<playlist_files, playlist_was_edited, hist, todo>>
           ELSE /\ todo' = Tail(todo)
                /\ UNCHANGED <<playlist_files, playlist_was_edited, hist, pc, exit_code>>
    /\ UNCHANGED <<command, media_loc, playlists, nonexist_track_was_found, portable_vars>>

\* lines 139-142, and line 117 when the command is maintenance.
DedupEnd ==
    /\ pc = "dedup_loop"
    /\ todo = <<>>
    /\ IF command = "maintenance"
       THEN pc' = "check_start" /\ exit_code' = exit_code
       ELSE pc' = "done" /\ exit_code' = <<0>>
    /\ UNCHANGED <<command, media_loc, playlist_files, playlists, todo,
                   playlist_was_edited, nonexist_track_was_found, hist, portable_vars>>

\* lines 145-148
CheckRequireLocs ==
    /\ \/ pc = "start" /\ command = "check-playlists"
       \/ pc = "check_start"
    /\ IF require_locs(<<media_loc.playlists, media_loc.music>>)
       THEN pc' = "check_read" /\ exit_code' = exit_code
       ELSE fail("missing a required location", ERR_CONFIG)
    /\ UNCHANGED <<command, media_loc, playlist_files, playlists, todo,
                   playlist_was_edited, nonexist_track_was_found, hist, portable_vars>>

\* line 154-159: the line is no comment and names nothing in the music location.
nonexisting_track(line) ==
    /\ ~StartsWith(line, <<"#">>)
    /\ ~os_path_exists(os_path_join(media_loc.music, line))

\* lines 150-166: every playlist is read and every line is looked up.
CheckPlaylists ==
    /\ pc = "check_read"
    /\ \E rev \in BOOLEAN :
        LET got == get_playlists(rev)
        IN  IF got.raised
            THEN /\ pc' = "failed" /\ exit_code' = <<1>>
                 /\ UNCHANGED <<playlists, nonexist_track_was_found>>
            ELSE /\ pc' = "done" /\ exit_code' = <<0>>
                 /\ playlists' = got.playlists
                 /\ nonexist_track_was_found' =
                        \E pl \in DOMAIN got.playlists :
                            \E i \in 1..Len(got.playlists[pl]) :
                                nonexisting_track(got.playlists[pl][i])
    /\ UNCHANGED <<command, media_loc, playlist_files, todo, playlist_was_edited, hist,
                   portable_vars>>

\* The command has ended well and is run again on the playlists it left.
RerunPlaylists ==
    /\ pc = "done"
    /\ hist.run < MaxRuns
    /\ pc' = "start"
    /\ playlists' = <<>>
    /\ todo' = <<>>
    /\ playlist_was_edited' = FALSE
    /\ nonexist_track_was_found' = FALSE
    /\ exit_code' = <<>>
    /\ hist' = NewPlaylistRun(hist.run + 1, pc,
                             hist.produced \cup {hist.log[i].arg : i \in 1..Len(hist.log)})
    /\ UNCHANGED <<command, media_loc, playlist_files, portable_vars>>

NextPlaylists ==
    \/ DedupRequireLocs
    \/ DedupRead
    \/ DedupPlaylist
    \/ DedupEnd
    \/ CheckRequireLocs
    \/ CheckPlaylists
    \/ RerunPlaylists

SpecPlaylists == InitPlaylists /\ [][NextPlaylists]_vars

(***************************************************************************)
(* Notions the properties are stated in.                                   *)
(***************************************************************************)
Terminal == pc \in {"done", "failed", "killed"}

\* p lies below directory d (both normalised).
Below(p, d) == StartsWith(p, d \o <<"/">>)

\* The destination tree: the files and directories below the portable library.
DestFiles(fs) ==
    LET d == Norm(media_loc.music_portable)
    IN  [p \in {q \in DOMAIN fs : Below(q, d)} |-> fs[p]]
DestDirs(ds) == {q \in ds : Below(q, Norm(media_loc.music_portable))}

\* The track the loop of lines 233-250 is at, its source and its artifact.
CurTrack == tracks_needing_converting[track_num + 1]
CurInfile == Norm(track_infile(CurTrack))
CurOuttrack == Norm(outtrack_of(track_infile(CurTrack), track_outdir(CurTrack)))

\* The values of the hash field in file f.
StoredTags(f) == {t[2] : t \in {u \in f.meta : u[1] = HASH_FIELD}}

\* The gate is about to handle a track whose artifact exists ...
AtGate == pc = "convert" /\ CurInfile \in DOMAIN files
ArtifactExists == CurOuttrack \in DOMAIN files \/ CurOuttrack \in dirs
\* ... with a stored tag that is not the source's digest,
ConflictAtGate ==
    /\ AtGate
    /\ CurOuttrack \in DOMAIN files
    /\ files[CurOuttrack].probe
    /\ StoredTags(files[CurOuttrack]) \notin {{}, {<<>>}, {get_file_hash(files[CurInfile])}}
\* ... with no tag that can be read.
UnreadableTagAtGate ==
    /\ AtGate
    /\ ArtifactExists
    /\ \/ CurOuttrack \in dirs
       \/ ~files[CurOuttrack].probe
       \/ StoredTags(files[CurOuttrack]) \in {{}, {<<>>}}

FfmpegRuns(log) == {i \in 1..Len(log) : log[i].tool = "ffmpeg"}

(***************************************************************************)
(* C1: idempotence.  When a run that follows a successful run (nothing     *)
(* changed in between) has succeeded too, it has not run ffmpeg and the    *)
(* destination tree is what the first run left.                            *)
(***************************************************************************)
C1_Idempotence ==
    (hist.run > 1 /\ hist.prev = "done" /\ pc = "done") =>
        /\ FfmpegRuns(hist.log) = {}
        /\ DestFiles(files) = DestFiles(hist.prev_files)
        /\ DestDirs(dirs) = DestDirs(hist.prev_dirs)

(***************************************************************************)
(* C2: conflict detection.  A step taken when the gate is at a track whose *)
(* artifact exists with a stored tag other than the source's digest ends   *)
(* the run (status ERR_FILESYSTEM unless the process was terminated from   *)
(* outside), runs no ffmpeg and changes no file; and a run that has ended  *)
(* takes no further step: only a new run follows.                          *)
(***************************************************************************)
C2_ConflictHalts ==
    [][/\ ConflictAtGate =>
            /\ pc' \in {"failed", "killed"}
            /\ pc' = "failed" => exit_code' = <<ERR_FILESYSTEM>>
            /\ FfmpegRuns(hist'.log) = FfmpegRuns(hist.log)
            /\ files' = files
       /\ Terminal => hist'.run = hist.run + 1 /\ hist'.log = <<>> /\ files' = files]_vars

C2_Witness ==
    /\ pc = "failed"
    /\ exit_code = <<ERR_FILESYSTEM>>
    /\ hist.log # <<>>
    /\ LET last == hist.log[Len(hist.log)]
       IN  /\ last.tool = "ffprobe"
           /\ last.rc = 0
           /\ last.out # <<>>
           /\ last.out # hist.log[Len(hist.log) - 1].out

(***************************************************************************)
(* C3: an artifact whose tag cannot be read.  A step taken when the gate   *)
(* is at a track whose artifact exists but has no readable tag (ffprobe    *)
(* fails on it, or it holds no value for the hash field) ends the run with *)
(* an error status: the track is neither skipped nor converted.            *)
(***************************************************************************)
C3_UnreadableTagFatal ==
    [][UnreadableTagAtGate =>
            /\ pc' \in {"failed", "killed"}
            /\ pc' = "failed" => exit_code' \in {<<ERR_FFMPEG>>, <<ERR_FILESYSTEM>>}
            /\ FfmpegRuns(hist'.log) = FfmpegRuns(hist.log)
            /\ track_num' = track_num
            /\ files' = files]_vars

C3_Witness ==
    /\ pc = "failed"
    /\ hist.log # <<>>
    /\ LET last == hist.log[Len(hist.log)]
       IN  last.tool = "ffprobe" /\ (last.rc # 0 \/ last.out = <<>>)

(***************************************************************************)
(* C4: resumability.  When a run that follows a terminated or failed run   *)
(* has succeeded, every entry of the transcode-list has a complete         *)
(* artifact whose tag is the digest of its source.                         *)
(***************************************************************************)
C4_Resumable ==
    (hist.run > 1 /\ hist.prev \in {"killed", "failed"} /\ pc = "done") =>
        \A i \in 1..Len(tracks_needing_converting) :
            LET intrack == track_infile(tracks_needing_converting[i])
                out == Norm(outtrack_of(intrack, track_outdir(tracks_needing_converting[i])))
            IN  /\ out \in DOMAIN files
                /\ files[out].enc = "ogg"
                /\ StoredTags(files[out]) = {get_file_hash(files[Norm(intrack)])}

(***************************************************************************)
(* C5: the scanner's partition.  After the scan, every file of the source  *)
(* tree outside the excluded directories is named by exactly one entry of  *)
(* the two lists together, in the transcode-list when its extension is in  *)
(* convert_exts and in the copy-list otherwise, and no entry names a file  *)
(* below an excluded directory.  An entry names the file it resolves to    *)
(* in the source root, which is how lines 227 and 235 use it.              *)
(***************************************************************************)
SourceFiles == {p \in DOMAIN files : Below(p, Norm(media_loc.music))}

\* p lies below a directory of the source tree whose name is excluded.
InExcludedDir(p) ==
    \E d \in Ancestors(Parent(p)) :
        Below(d, Norm(media_loc.music)) /\ InList(os_path_basename(d), exclude_dirs)

Naming(list, p) == {i \in 1..Len(list) : Resolve(media_loc.music, list[i]) = p}

C5_ScannerPartition ==
    pc = "copy" =>
        \A p \in SourceFiles :
            LET conv == Cardinality(Naming(tracks_needing_converting, p))
                copy == Cardinality(Naming(regular_files, p))
            IN  IF InExcludedDir(p) THEN conv = 0 /\ copy = 0
                ELSE IF InList(file_ext(os_path_basename(p)), convert_exts)
                     THEN conv = 1 /\ copy = 0
                     ELSE conv = 0 /\ copy = 1

(***************************************************************************)
(* C6: tag round trip.  Every ffmpeg command of the run embeds, under the  *)
(* hash field, the digest the gate has just computed from the source; and  *)
(* for every artifact a completed ffmpeg has produced, reading the hash    *)
(* field back gives the digest of its source, and a gate that handles that *)
(* source again decides to skip.                                           *)
(***************************************************************************)
C6_TagRoundTrip ==
    /\ \A i \in FfmpegRuns(hist.log) :
        /\ i > 1
        /\ hist.log[i - 1].tool = "hash"
        /\ hist.log[i - 1].arg = hist.log[i].arg[1]
        /\ ffmpeg_metadata(hist.log[i].arg[2]) = <<HASH_FIELD, hist.log[i - 1].out>>
    /\ \A x \in hist.produced :
        /\ Norm(x[1]) \in DOMAIN files
        /\ x[3] = get_file_hash(files[Norm(x[1])])
        /\ Norm(x[2]) \in DOMAIN files
        /\ StoredTags(files[Norm(x[2])]) = {x[3]}
        /\ get_track_stored_hash(x[2]) = [rc |-> 0, retrieved_hash |-> x[3]]
        /\ (pc = "convert" /\ track_infile(CurTrack) = x[1]) =>
                gate(x[1], track_outdir(CurTrack)).kind = "skip"

\* A later run is at the gate of a track an earlier run has converted.
C6_Witness ==
    /\ hist.run > 1
    /\ pc = "convert"
    /\ \E x \in hist.produced : x[1] = track_infile(CurTrack)
    /\ FfmpegRuns(hist.log) = {}

(***************************************************************************)
(* C7: the bulk copy.  rsync is run at most once in a run and before any   *)
(* step for a track; a step for a track comes first only when there is     *)
(* nothing to copy; and when rsync has exited with a status other than 0   *)
(* the run has ended with ERR_RSYNC and has run nothing else.              *)
(***************************************************************************)
C7_RsyncFirstAndFatal ==
    /\ \A i \in 1..Len(hist.log) : hist.log[i].tool = "rsync" => i = 1
    /\ (hist.log # <<>> /\ hist.log[1].tool # "rsync") => regular_files = <<>>
    /\ (hist.log # <<>> /\ hist.log[1].tool = "rsync" /\ hist.log[1].rc # 0) =>
            /\ Len(hist.log) = 1
            /\ pc = "failed"
            /\ exit_code = <<ERR_RSYNC>>

C7_Witness ==
    /\ pc = "failed"
    /\ exit_code = <<ERR_RSYNC>>
    /\ Len(hist.log) = 1
    /\ hist.log[1].tool = "rsync"
    /\ hist.log[1].rc # 0
    /\ tracks_needing_converting # <<>>

(***************************************************************************)
(* C8: the order of the gates.  The transcode-list is sorted; the steps of *)
(* the run are taken for its entries in that order, one entry at a time,   *)
(* an entry only when every entry before it is done; a step that fails is  *)
(* the last step of the run; and the run ends "generated" only when every  *)
(* entry is done.                                                          *)
(***************************************************************************)
Sorted(list) == \A i, j \in 1..Len(list) : i < j => ~StrLess(list[j], list[i])

\* The steps of log for entry number n have ended in Done: the directory was
\* made, the source hashed, and then the track was converted or found current.
EntryDone(log, n) ==
    \E i, j, k \in 1..Len(log) :
        /\ i < j /\ j < k
        /\ log[i].n = n /\ log[i].tool = "mkdir" /\ log[i].rc = 0
        /\ log[j].n = n /\ log[j].tool = "hash" /\ log[j].rc = 0
        /\ log[k].n = n /\ log[k].rc = 0
        /\ \/ log[k].tool = "ffmpeg"
           \/ log[k].tool = "ffprobe" /\ log[k].out # <<>> /\ log[k].out = log[j].out

\* Step i of log failed: a command exited with an error, or the stored hash
\* read by ffprobe is none or not the hash computed before.
StepFailed(log, i) ==
    \/ log[i].rc # 0
    \/ log[i].tool = "ffprobe" /\ (log[i].out = <<>> \/ log[i].out # log[i - 1].out)

C8_SortedGatesStopAtFailure ==
    pc \notin {"start", "scan"} =>
        LET log == hist.log
            total == Len(tracks_needing_converting)
        IN  /\ Sorted(tracks_needing_converting)
            /\ \A i \in 1..Len(log) :
                /\ log[i].tool # "rsync" =>
                    /\ log[i].n < total
                    /\ log[i].tool = "mkdir" =>
                           log[i].arg = track_outdir(tracks_needing_converting[log[i].n + 1])
                    /\ log[i].tool = "hash" =>
                           log[i].arg = track_infile(tracks_needing_converting[log[i].n + 1])
                    /\ \A m \in 0..(log[i].n - 1) : EntryDone(SubSeq(log, 1, i - 1), m)
                /\ StepFailed(log, i) => i = Len(log) /\ pc \in {"failed", "killed"}
            /\ \A m \in 0..(total - 1) : m < track_num <=> EntryDone(log, m)
            /\ pc = "done" => exit_code = <<0>> /\ \A m \in 0..(total - 1) : EntryDone(log, m)

\* A run of two tracks has stopped at the second: the first is done, the
\* second has failed.
C8_Witness ==
    /\ pc = "failed"
    /\ Len(tracks_needing_converting) > 1
    /\ tracks_needing_converting[1] # tracks_needing_converting[2]
    /\ track_num = 1
    /\ EntryDone(hist.log, 0)
    /\ StepFailed(hist.log, Len(hist.log))

(***************************************************************************)
(* C9: unreadable directories.  When the source root is no directory that  *)
(* can be listed, or the walk meets a directory that cannot be listed, the *)
(* run does not get past the scan.                                         *)
(***************************************************************************)
WalkMeetsUnreadable ==
    LET top == Norm(media_loc.music)
    IN  \/ top \notin dirs
        \/ top \in unreadable
        \/ \E d \in unreadable :
            /\ Below(d, top)
            /\ \A a \in Ancestors(d) :
                   Below(a, top) => ~InList(os_path_basename(a), exclude_dirs)

C9_UnreadableIsFatal ==
    (media_loc.music # None /\ WalkMeetsUnreadable) =>
        pc \notin {"copy", "loop", "convert", "done"}

(***************************************************************************)
(* C10: files without an extension.  No entry of the transcode-list is a   *)
(* file without an extension.                                              *)
(***************************************************************************)
C10_NoExtensionIsCopy ==
    pc \notin {"start", "scan"} =>
        \A i \in 1..Len(tracks_needing_converting) :
            os_path_splitext(os_path_basename(tracks_needing_converting[i]))[2] # <<>>

(***************************************************************************)
(* C11: a missing location.  When a location the command needs is not in   *)
(* the configuration (maintenance needs what its two parts need: the       *)
(* playlists and the music location), the command writes no playlist file, *)
(* and it ends only by failing with ERR_CONFIG.                            *)
(***************************************************************************)
NeededLocs ==
    IF command = "deduplicate-playlists" THEN <<media_loc.playlists>>
    ELSE <<media_loc.playlists, media_loc.music>>

C11_MissingLocationNoWork ==
    ~require_locs(NeededLocs) =>
        /\ hist.log = <<>>
        /\ playlist_files = hist.start_playlist_files
        /\ Terminal => pc = "failed" /\ exit_code = <<ERR_CONFIG>>

(***************************************************************************)
(* C12: an empty copy-list.  Once the copy step is past, rsync has not     *)
(* been run at all when the copy-list is empty, and has been run exactly   *)
(* once, first, with the whole copy-list when it is not; and the copy step *)
(* of an empty copy-list raises no error, touches nothing and leaves the   *)
(* run at the first entry of the transcode-list.                           *)
(***************************************************************************)
RsyncRuns(log) == {i \in 1..Len(log) : log[i].tool = "rsync"}

C12_EmptyCopyListNoRsync ==
    /\ [](pc \notin {"start", "scan", "copy"} =>
            IF regular_files = <<>>
            THEN RsyncRuns(hist.log) = {}
            ELSE RsyncRuns(hist.log) = {1} /\ hist.log[1].arg = regular_files)
    /\ [][(pc = "copy" /\ regular_files = <<>>) =>
            /\ pc' = "loop"
            /\ track_num' = 0
            /\ exit_code' = <<>>
            /\ hist' = hist
            /\ files' = files /\ dirs' = dirs]_vars

\* The gate of the first entry is reached and nothing was copied.
C12_Witness ==
    /\ pc = "convert"
    /\ regular_files = <<>>
    /\ track_num = 0
    /\ hist.log # <<>>
    /\ hist.log[1].tool = "mkdir"

(***************************************************************************)
(* C13: the main library is never written.  No step creates, changes or    *)
(* removes a file or a directory at or below the source root, whatever the *)
(* two roots are.                                                          *)
(***************************************************************************)
UnderSource(p) ==
    LET root == Norm(media_loc.music) IN p = root \/ Below(p, root)

C13_SourceNeverWritten ==
    [][media_loc.music # None =>
        /\ \A p \in DOMAIN files \cup DOMAIN files' :
                UnderSource(p) =>
                    p \in DOMAIN files /\ p \in DOMAIN files' /\ files'[p] = files[p]
        /\ {d \in dirs' : UnderSource(d)} = {d \in dirs : UnderSource(d)}]_vars

(***************************************************************************)
(* C14: relative-path round trip.  After the scan the two lists hold one   *)
(* entry for every file the walk has found, and the entry is the file's    *)
(* path without its leading source-root part: a proper end of the path     *)
(* that joined to the source root is the path again.                       *)
(***************************************************************************)
\* The paths (line 199) of the files the walk of lines 195-198 finds.
ScanFound ==
    LET found == os_walk(media_loc.music, FALSE)
    IN  {os_path_join(found[i][1], found[i][2]) : i \in 1..Len(found)}

\* entry is filepath with only a leading part removed, the source root.
RelativeTo(entry, filepath) ==
    /\ Len(entry) < Len(filepath)
    /\ SubSeq(filepath, Len(filepath) - Len(entry) + 1, Len(filepath)) = entry
    /\ os_path_join(media_loc.music, entry) = filepath

C14_RelativePathRoundTrip ==
    pc = "copy" =>
        LET entries == tracks_needing_converting \o regular_files
        IN  /\ Len(entries) = Cardinality(ScanFound)
            /\ \A filepath \in ScanFound :
                    Cardinality({i \in 1..Len(entries) :
                                    RelativeTo(entries[i], filepath)}) = 1

(***************************************************************************)
(* C15: the directory before the transcoder.  Every ffmpeg command of the  *)
(* run comes after a mkdir -p of the same entry that exited with 0 and     *)
(* made the directory its output file is in; and a mkdir -p that exited    *)
(* with another status is the last command of the run, which has failed    *)
(* with ERR_FILESYSTEM.                                                    *)
(***************************************************************************)
C15_MkdirBeforeFfmpeg ==
    LET log == hist.log
    IN  /\ \A i \in FfmpegRuns(log) :
                \E j \in 1..(i - 1) :
                    /\ log[j].tool = "mkdir"
                    /\ log[j].n = log[i].n
                    /\ log[j].rc = 0
                    /\ Norm(log[j].arg) = Norm(os_path_dirname(log[i].arg[3]))
                    /\ Norm(log[j].arg) \in dirs
        /\ \A j \in 1..Len(log) :
                (log[j].tool = "mkdir" /\ log[j].rc # 0) =>
                    /\ j = Len(log)
                    /\ pc = "failed"
                    /\ exit_code = <<ERR_FILESYSTEM>>

\* An entry has been transcoded, and the directory of the next could not be made.
C15_Witness ==
    /\ pc = "failed"
    /\ FfmpegRuns(hist.log) # {}
    /\ hist.log[Len(hist.log)].tool = "mkdir"
    /\ hist.log[Len(hist.log)].rc # 0

(***************************************************************************)
(* C16: artifact paths do not collide.  After the scan no two entries of   *)
(* the transcode-list have the same artifact path, and no artifact path is *)
(* the path rsync copies an entry of the copy-list to.                     *)
(***************************************************************************)
ArtifactOf(track) == Norm(outtrack_of(track_infile(track), track_outdir(track)))

C16_ArtifactPathsCollisionFree ==
    pc \notin {"start", "scan"} =>
        /\ \A i, j \in 1..Len(tracks_needing_converting) :
                i # j => ArtifactOf(tracks_needing_converting[i])
                         # ArtifactOf(tracks_needing_converting[j])
        /\ \A i \in 1..Len(tracks_needing_converting), k \in 1..Len(regular_files) :
                ArtifactOf(tracks_needing_converting[i])
                # rsync_dst(media_loc.music_portable, regular_files[k])

(***************************************************************************)
(* C17: deduplicate-playlists.  When the deduplication has gone through,   *)
(* every playlist holds no line twice; its lines are the first occurrences *)
(* of the lines it had when the command started, in their order; a         *)
(* playlist was written exactly when it had a line twice, and is otherwise *)
(* the very file it was; and a run that follows a run that ended well      *)
(* writes no playlist.                                                     *)
(***************************************************************************)
\* The lines of a playlist file.
LinesOf(text) == str_splitlines(read_text(text))

NoLineTwice(lines) == \A i, j \in 1..Len(lines) : i # j => lines[i] # lines[j]

\* The elements of lines that occur at no earlier place, in order.
RECURSIVE FirstOccurrencesFrom(_, _)
FirstOccurrencesFrom(lines, i) ==
    IF i > Len(lines) THEN <<>>
    ELSE (IF \A j \in 1..(i - 1) : lines[j] # lines[i] THEN <<lines[i]>> ELSE <<>>)
         \o FirstOccurrencesFrom(lines, i + 1)

Written(log) == {log[i].arg : i \in {k \in 1..Len(log) : log[k].tool = "write"}}

DedupOver ==
    /\ command \in {"deduplicate-playlists", "maintenance"}
    /\ pc \in {"done", "check_start", "check_read"}

C17_DeduplicatePlaylists ==
    /\ DedupOver =>
            \A p \in DOMAIN playlist_files :
                LET before == hist.start_playlist_files[p]
                IN  /\ NoLineTwice(LinesOf(playlist_files[p]))
                    /\ LinesOf(playlist_files[p]) = FirstOccurrencesFrom(LinesOf(before), 1)
                    /\ p \in Written(hist.log) <=> ~NoLineTwice(LinesOf(before))
                    /\ p \notin Written(hist.log) => playlist_files[p] = before
    /\ (hist.run > 1 /\ hist.prev = "done" /\ command # "check-playlists") =>
            /\ hist.log = <<>>
            /\ playlist_files = hist.start_playlist_files
            /\ ~playlist_was_edited

\* A run that follows a run that has rewritten a playlist has ended.
C17_Witness ==
    /\ command = "deduplicate-playlists"
    /\ hist.run > 1
    /\ hist.produced # {}
    /\ pc = "done"

====
